---- MODULE Spec2Model ----
(***************************************************************************)
(* Speculos device lifecycle (createSpeculosDevice, releaseSpeculosDevice, *)
(* closeAllSpeculosDevices and the "speculos" transport module) as a state *)
(* machine.  The instance "speculosID-n" is represented by the integer n.  *)
(* Node runs one callback at a time and drains promise reactions before    *)
(* the next event, so every event handler together with the await          *)
(* continuations it releases is one atomic action.                         *)
(***************************************************************************)
EXTENDS FiniteSets, Integers, Sequences, TLC

\* ---------------------------------------------------------------- bounds
\* number of createSpeculosDevice calls explored
MaxInst == 2
\* largest counter value handed to the port computation
MaxCounter == 1002
\* largest counter value of the first of two compared instances
MaxFirst == 2

\* ------------------------------------------------------ program constants
ApduBase == 40000
VncBase == 41000
ButtonBase == 42000
AutomationBase == 43000

Ids == 1..MaxInst

\* does a diagnostic chunk contain the marker "using SDK" (data.includes)
Chunks == {"using SDK", "other output"}
includesMarker(chunk) == chunk = "using SDK"

NoTransport == 0

VARIABLES
    idCounter,         \* let idCounter
    data,              \* const data = {} : id -> instance record
    pc,                \* position of each createSpeculosDevice call
    ready,             \* state of each call's `ready` promise
    proc,              \* the spawned docker process of each call
    rm,                \* the `docker rm -f` exec of each id
    rmCount,           \* how many times exec(`docker rm -f id`) was called
    rmBy,              \* removal issued by an explicit destroy or by the close handler
    unhandled,         \* ids whose destroy promise rejected with no handler
    transportCounter,  \* transports created by SpeculosTransport.open
    returned,          \* transport in the value createSpeculosDevice returned
    lastCall,          \* the last synchronous call of the exported API
    input,             \* arguments of the pure function under study
    output             \* its result

vars == <<idCounter, data, pc, ready, proc, rm, rmCount, rmBy, unhandled,
          transportCounter, returned, lastCall, input, output>>

\* ------------------------------------------------------------ port set
\* the four host ports computed from the counter
PortSet(n) ==
    [apduPort |-> ApduBase + n,
     vncPort |-> VncBase + n,
     buttonPort |-> ButtonBase + n,
     automationPort |-> AutomationBase + n]

PortsOf(ps) == {ps.apduPort, ps.vncPort, ps.buttonPort, ps.automationPort}

\* --------------------------------------------------------- ready promise
\* a promise settles once: resolve/reject on a settled promise do nothing
SettleOverwrite(state, outcome) == outcome

Settle(state, outcome) == IF state = "pending" THEN outcome ELSE state

\* ------------------------------------------------------------- registry
\* the mutable state destroy works on
Registry == [data |-> data, rm |-> rm, rmCount |-> rmCount, rmBy |-> rmBy]

Remove(d, id) == [k \in DOMAIN d \ {id} |-> d[k]]

\* exec(`docker rm -f ${id}`) is called
requestRemoval(st, id, by) ==
    [st EXCEPT !.rm[id] = "pending",
               !.rmCount[id] = @ + 1,
               !.rmBy[id] = by]

destroyNoGuard(st, id, by) ==
    requestRemoval([st EXCEPT !.data = Remove(st.data, id)], id, by)

\* const destroy = () => new Promise(...)
destroy(st, id, by) ==
    IF id \notin DOMAIN st.data THEN st
    ELSE requestRemoval([st EXCEPT !.data = Remove(st.data, id)], id, by)

\* the body shared by releaseSpeculosDevice and the module's disconnect:
\* const obj = data[id]; if (obj) obj.destroy();
releaseEntry(st, id, by) ==
    IF id \in DOMAIN st.data THEN destroy(st, id, by) ELSE st

\* forEach visits the keys one after the other; each visit works on the
\* registry the previous one left
RECURSIVE forEachRelease(_, _)
forEachRelease(st, keys) ==
    IF keys = {} THEN st
    ELSE LET id == CHOOSE k \in keys : \A o \in keys : k <= o
         IN forEachRelease(releaseEntry(st, id, "explicit"), keys \ {id})

releaseFirstOnly(st, keys) ==
    IF keys = {} THEN st
    ELSE LET id == CHOOSE k \in keys : \A o \in keys : k <= o
         IN releaseEntry(st, id, "explicit")

\* Object.keys(data).forEach(releaseSpeculosDevice)
releaseAllKeys(st, keys) == forEachRelease(st, keys)

SetRegistry(st) ==
    /\ data' = st.data
    /\ rm' = st.rm
    /\ rmCount' = st.rmCount
    /\ rmBy' = st.rmBy

\* ---------------------------------------------------- transport lookup
Handle(h) == [kind |-> "transport", transport |-> h, error |-> "none"]
Throw(e) == [kind |-> "throw", transport |-> NoTransport, error |-> e]
Undefined == [kind |-> "undefined", transport |-> NoTransport, error |-> "none"]

openUnchecked(d, id) ==
    IF id \in DOMAIN d THEN Handle(d[id].transport)
    ELSE Throw("TypeError")

\* registerTransportModule open(id) for an id starting with "speculosID"
open(d, id) ==
    IF id \notin DOMAIN d THEN Throw("speculos transport was destroyed")
    ELSE Handle(d[id].transport)

NoCall == [op |-> "none", id |-> 0, keys |-> {}, found |-> FALSE,
           result |-> Undefined]

\* ------------------------------------------------------------- Init
NoInput == [n1 |-> 0, n2 |-> 0]
NoOutput == [done |-> FALSE, p1 |-> PortSet(0), p2 |-> PortSet(0)]

InitLifecycle ==
    /\ idCounter = 0
    /\ data = << >>
    /\ pc = [i \in Ids |-> "idle"]
    /\ ready = [i \in Ids |-> "none"]
    /\ proc = [i \in Ids |-> "none"]
    /\ rm = [i \in Ids |-> "none"]
    /\ rmCount = [i \in Ids |-> 0]
    /\ rmBy = [i \in Ids |-> "none"]
    /\ unhandled = {}
    /\ transportCounter = 0
    /\ returned = [i \in Ids |-> NoTransport]
    /\ lastCall = NoCall

Init ==
    /\ InitLifecycle
    /\ input = NoInput
    /\ output = NoOutput

\* ------------------------------------------------------------ actions
\* createSpeculosDevice up to `await ready`: the id and ports are taken from
\* the counter, the process is spawned, the handlers are installed
spawnSpeculos ==
    /\ idCounter < MaxInst
    /\ idCounter' = idCounter + 1
    /\ pc' = [pc EXCEPT ![idCounter + 1] = "awaitReady"]
    /\ ready' = [ready EXCEPT ![idCounter + 1] = "pending"]
    /\ proc' = [proc EXCEPT ![idCounter + 1] = "running"]
    /\ UNCHANGED <<data, rm, rmCount, rmBy, unhandled, transportCounter,
                   returned, lastCall>>

\* a call of createSpeculosDevice by a user of the module
createSpeculosDevice ==
    /\ spawnSpeculos
    /\ UNCHANGED <<input, output>>

stderrDataEager(i, chunk) ==
    /\ proc[i] = "running"
    /\ ready' = [ready EXCEPT ![i] =
                   IF includesMarker(chunk) THEN Settle(@, "resolved") ELSE @]
    /\ pc' = [pc EXCEPT ![i] = IF @ = "awaitReady" THEN "awaitOpen" ELSE @]
    /\ UNCHANGED <<idCounter, data, proc, rm, rmCount, rmBy, unhandled,
                   transportCounter, returned, lastCall, input, output>>

\* p.stderr.on("data"): resolveReady() when the chunk contains the marker;
\* a call waiting in `await ready` goes on to SpeculosTransport.open
stderrData(i, chunk) ==
    /\ proc[i] = "running"
    /\ ready' = [ready EXCEPT ![i] =
                   IF includesMarker(chunk) THEN Settle(@, "resolved") ELSE @]
    /\ pc' = [pc EXCEPT ![i] =
                IF @ = "awaitReady" /\ ready'[i] = "resolved"
                THEN "awaitOpen" ELSE @]
    /\ UNCHANGED <<idCounter, data, proc, rm, rmCount, rmBy, unhandled,
                   transportCounter, returned, lastCall, input, output>>

\* p.on("close"): destroy(); rejectReady(new Error("speculos process failure..."))
\* a call waiting in `await ready` throws that error
close(i) ==
    /\ proc[i] = "running"
    /\ proc' = [proc EXCEPT ![i] = "closed"]
    /\ SetRegistry(destroy(Registry, i, "close"))
    /\ ready' = [ready EXCEPT ![i] = Settle(@, "rejected")]
    /\ pc' = [pc EXCEPT ![i] =
                IF @ = "awaitReady" /\ ready'[i] = "rejected"
                THEN "failed" ELSE @]
    /\ UNCHANGED <<idCounter, unhandled, transportCounter, returned,
                   lastCall, input, output>>

\* SpeculosTransport.open resolves: the record is stored and {id, transport}
\* returned.  The outcome of the connection is the transport library's: it
\* may resolve or reject whatever has happened to the process meanwhile.
transportOpened(i) ==
    /\ pc[i] = "awaitOpen"
    /\ transportCounter' = transportCounter + 1
    /\ data' = [k \in DOMAIN data \cup {i} |->
                  IF k = i
                  THEN [process |-> i,
                        apduPort |-> PortSet(i).apduPort,
                        buttonPort |-> PortSet(i).buttonPort,
                        automationPort |-> PortSet(i).automationPort,
                        transport |-> transportCounter + 1,
                        destroy |-> i]
                  ELSE data[k]]
    /\ returned' = [returned EXCEPT ![i] = transportCounter + 1]
    /\ pc' = [pc EXCEPT ![i] = "done"]
    /\ UNCHANGED <<idCounter, ready, proc, rm, rmCount, rmBy, unhandled,
                   lastCall, input, output>>

\* SpeculosTransport.open rejects: createSpeculosDevice throws
transportFailed(i) ==
    /\ pc[i] = "awaitOpen"
    /\ pc' = [pc EXCEPT ![i] = "failed"]
    /\ UNCHANGED <<idCounter, data, ready, proc, rm, rmCount, rmBy, unhandled,
                   transportCounter, returned, lastCall, input, output>>

\* export function releaseSpeculosDevice(id)
releaseSpeculosDevice(id) ==
    /\ SetRegistry(releaseEntry(Registry, id, "explicit"))
    /\ lastCall' = [op |-> "release", id |-> id, keys |-> {},
                    found |-> id \in DOMAIN data, result |-> Undefined]
    /\ UNCHANGED <<idCounter, pc, ready, proc, unhandled, transportCounter,
                   returned, input, output>>

\* registerTransportModule disconnect(deviceId)
disconnect(id) ==
    /\ SetRegistry(releaseEntry(Registry, id, "explicit"))
    /\ lastCall' = [op |-> "disconnect", id |-> id, keys |-> {},
                    found |-> id \in DOMAIN data, result |-> Undefined]
    /\ UNCHANGED <<idCounter, pc, ready, proc, unhandled, transportCounter,
                   returned, input, output>>

\* export function closeAllSpeculosDevices()
closeAllSpeculosDevices ==
    /\ SetRegistry(releaseAllKeys(Registry, DOMAIN data))
    /\ lastCall' = [op |-> "closeAll", id |-> 0, keys |-> DOMAIN data,
                    found |-> DOMAIN data # {}, result |-> Undefined]
    /\ UNCHANGED <<idCounter, pc, ready, proc, unhandled, transportCounter,
                   returned, input, output>>

execDoneReinsert(i, error) ==
    /\ rm[i] = "pending"
    /\ rm' = [rm EXCEPT ![i] = IF error THEN "failed" ELSE "ok"]
    /\ unhandled' = IF error THEN unhandled \cup {i} ELSE unhandled
    /\ data' = IF error
               THEN [k \in DOMAIN data \cup {i} |->
                       IF k = i
                       THEN [process |-> i,
                             apduPort |-> PortSet(i).apduPort,
                             buttonPort |-> PortSet(i).buttonPort,
                             automationPort |-> PortSet(i).automationPort,
                             transport |-> returned[i],
                             destroy |-> i]
                       ELSE data[k]]
               ELSE data
    /\ UNCHANGED <<idCounter, pc, ready, proc, rmCount, rmBy,
                   transportCounter, returned, lastCall, input, output>>

\* the callback of exec(`docker rm -f ${id}`): resolve() or reject(error);
\* no caller keeps the promise, so a rejection has no handler
execDone(i, error) ==
    /\ rm[i] = "pending"
    /\ rm' = [rm EXCEPT ![i] = IF error THEN "failed" ELSE "ok"]
    /\ unhandled' = IF error THEN unhandled \cup {i} ELSE unhandled
    /\ UNCHANGED <<idCounter, data, pc, ready, proc, rmCount, rmBy,
                   transportCounter, returned, lastCall, input, output>>

\* the transport module's open(id) with an instance id
openById(id) ==
    /\ lastCall' = [op |-> "open", id |-> id, keys |-> {},
                    found |-> id \in DOMAIN data, result |-> open(data, id)]
    /\ UNCHANGED <<idCounter, data, pc, ready, proc, rm, rmCount, rmBy,
                   unhandled, transportCounter, returned, input, output>>

Next ==
    \/ createSpeculosDevice
    \/ \E i \in Ids, chunk \in Chunks : stderrData(i, chunk)
    \/ \E i \in Ids : close(i)
    \/ \E i \in Ids : transportOpened(i)
    \/ \E i \in Ids : transportFailed(i)
    \/ \E id \in Ids : releaseSpeculosDevice(id)
    \/ \E id \in Ids : disconnect(id)
    \/ closeAllSpeculosDevices
    \/ \E i \in Ids, error \in BOOLEAN : execDone(i, error)
    \/ \E id \in Ids : openById(id)

Spec == Init /\ [][Next]_vars

\* ------------------------------------------- port computation as a function
\* two counter values whose port sets are compared
InitPorts ==
    /\ InitLifecycle
    /\ input \in [n1 : 1..MaxFirst, n2 : 1..MaxCounter]
    /\ output = NoOutput

\* lines 54-57 evaluated for both counter values
allocate ==
    /\ ~output.done
    /\ output' = [done |-> TRUE, p1 |-> PortSet(input.n1),
                  p2 |-> PortSet(input.n2)]
    /\ UNCHANGED <<input, idCounter, data, pc, ready, proc, rm, rmCount, rmBy,
                   unhandled, transportCounter, returned, lastCall>>

NextPorts == allocate

SpecPorts == InitPorts /\ [][NextPorts]_vars

\* ------------------------------------------------------------ properties
TypeOK ==
    /\ idCounter \in 0..MaxInst
    /\ DOMAIN data \subseteq 1..idCounter
    /\ pc \in [Ids -> {"idle", "awaitReady", "awaitOpen", "done", "failed"}]
    /\ ready \in [Ids -> {"none", "pending", "resolved", "rejected"}]
    /\ proc \in [Ids -> {"none", "running", "closed"}]
    /\ rm \in [Ids -> {"none", "pending", "ok", "failed"}]
    /\ rmCount \in [Ids -> Nat]
    /\ rmBy \in [Ids -> {"none", "explicit", "close"}]
    /\ unhandled \subseteq Ids
    /\ transportCounter \in 0..MaxInst

Destroyed(i) == rmCount[i] >= 1

\* C1: whatever destroy requests are made for an id that was registered
\* (releaseSpeculosDevice, disconnect, closeAllSpeculosDevices, the process
\* close handler), `docker rm -f id` is issued exactly once: never more than
\* once, not at all while the entry is still in the registry (the entry is
\* deleted before the command is requested), and once as soon as the entry
\* of a registered instance is gone.
C1_RemovalExactlyOnce ==
    \A i \in Ids :
        /\ rmCount[i] <= 1
        /\ i \in DOMAIN data => rmCount[i] = 0
        /\ (pc[i] = "done" /\ i \notin DOMAIN data) => rmCount[i] = 1

\* a release or disconnect arrived for an id whose removal had been issued
\* before: it found no entry and issued nothing
C1_Witness ==
    /\ lastCall.op \in {"release", "disconnect"}
    /\ ~lastCall.found
    /\ lastCall.id \in Ids
    /\ pc[lastCall.id] = "done"
    /\ rmCount[lastCall.id] = 1
    /\ proc[lastCall.id] = "closed"

\* C2: an id is in the registry if and only if its process is live or its
\* destruction cleanup has not completed.
C2_RegistryIffLive ==
    \A i \in Ids :
        i \in DOMAIN data <=> (proc[i] = "running" \/ rm[i] = "pending")

\* C3: the port sets of two different counter values have no port in common.
C3_PortSetsDisjoint ==
    (output.done /\ input.n1 # input.n2)
        => PortsOf(output.p1) \cap PortsOf(output.p2) = {}

\* C4: the readiness promise settles at most once: it becomes resolved only
\* by a diagnostic chunk of the running process, rejected only by the close
\* event, a close event while it is pending rejects it, and once settled it
\* never changes.
C4_ReadySingleFire ==
    [][\A i \in Ids :
          /\ ready[i] \in {"resolved", "rejected"} => ready'[i] = ready[i]
          /\ (ready[i] = "pending" /\ ready'[i] = "resolved")
                => (proc[i] = "running" /\ proc'[i] = "running")
          /\ (ready[i] = "pending" /\ ready'[i] = "rejected")
                => (proc[i] = "running" /\ proc'[i] = "closed")
          /\ (ready[i] = "pending" /\ proc[i] = "running" /\ proc'[i] = "closed")
                => ready'[i] = "rejected"]_vars

\* readiness succeeded and the close event came afterwards
C4_Witness ==
    \E i \in Ids : ready[i] = "resolved" /\ proc[i] = "closed"

\* C5: when the process closes before the marker, the readiness wait fails
\* and the removal command is requested for that id.
C5_LaunchFailureCleansUp ==
    \A i \in Ids :
        ready[i] = "rejected" => (pc[i] = "failed" /\ rmCount[i] >= 1)

\* C6: an instance that is spawned and still waiting for readiness is in the
\* registry, and a releaseSpeculosDevice of its id requests its removal.
C6_PendingSpawnRegistered ==
    \A i \in Ids :
        (pc[i] = "awaitReady" /\ proc[i] = "running")
            => /\ i \in DOMAIN data
               /\ (lastCall.op = "release" /\ lastCall.id = i)
                     => rmCount[i] >= 1

\* C7: once the process has terminated after readiness succeeded, the id is
\* not in the registry.
C7_ClosedAfterReadyNotRegistered ==
    \A i \in Ids :
        (ready[i] = "resolved" /\ proc[i] = "closed") => i \notin DOMAIN data

\* C8: after createSpeculosDevice returned {id, transport}, open(id) gives
\* that same transport until the instance is destroyed, and fails with
\* "speculos transport was destroyed" from then on.
C8_LookupStable ==
    \A i \in Ids :
        pc[i] = "done" =>
            /\ returned[i] # NoTransport
            /\ IF Destroyed(i)
               THEN open(data, i) = Throw("speculos transport was destroyed")
               ELSE open(data, i) = Handle(returned[i])

\* open(id) was called after the destruction of a returned instance and
\* threw
C8_Witness ==
    /\ lastCall.op = "open"
    /\ lastCall.id \in Ids
    /\ pc[lastCall.id] = "done"
    /\ Destroyed(lastCall.id)
    /\ lastCall.result.kind = "throw"

\* C9: a failure of the removal command issued by releaseSpeculosDevice or
\* disconnect reaches the caller: the rejection is not left without handler.
C9_TeardownFailureReported ==
    \A i \in Ids :
        (rm[i] = "failed" /\ rmBy[i] = "explicit")
            => i \notin unhandled

\* C10: after closeAllSpeculosDevices none of the ids registered at the call
\* is in the registry and the removal command was requested once for each,
\* by that call, whatever the outcome of the other removals.
C10_CloseAllDestroysAll ==
    lastCall.op = "closeAll" =>
        \A i \in lastCall.keys :
            /\ i \notin DOMAIN data
            /\ rmCount[i] = 1
            /\ rmBy[i] = "explicit"

\* closeAllSpeculosDevices found two instances; the removal of one failed
\* and the other was removed all the same
C10_Witness ==
    /\ lastCall.op = "closeAll"
    /\ \E j, k \in lastCall.keys :
          /\ j # k
          /\ rm[j] = "failed"
          /\ rm[k] = "ok"
          /\ DOMAIN data = {}

\* the call reached SpeculosTransport.open
OpenAttempted(i) ==
    \/ pc[i] \in {"awaitOpen", "done"}
    \/ pc[i] = "failed" /\ ready[i] = "resolved"

\* C16: SpeculosTransport.open is attempted only once the readiness promise
\* is resolved, never while it is pending or after it was rejected, and an
\* id is in the registry only after its transport was opened.
C16_OpenOnlyAfterReady ==
    \A i \in Ids :
        /\ OpenAttempted(i) => ready[i] = "resolved"
        /\ ready[i] \in {"none", "pending", "rejected"}
              => pc[i] \notin {"awaitOpen", "done"}
        /\ i \in DOMAIN data
              => /\ pc[i] = "done"
                 /\ returned[i] # NoTransport
                 /\ data[i].transport = returned[i]

\* one call failed in `await ready` and never opened a transport, another
\* went through readiness and the transport open and is registered
C16_Witness ==
    \E i, j \in Ids :
        /\ ready[i] = "rejected" /\ pc[i] = "failed"
        /\ ready[j] = "resolved" /\ j \in DOMAIN data

\* an id whose entry destroy has removed
Removed(i) == pc[i] = "done" /\ i \notin DOMAIN data

\* C17: an id removed from the registry by destroy is never in the registry
\* again, whatever follows; in particular a failed removal command leaves
\* the entry absent.
C17_RemovedStaysRemoved ==
    /\ [][\A i \in Ids : Removed(i) => i \notin DOMAIN data']_vars
    /\ [](\A i \in Ids : rm[i] \in {"pending", "failed"} => Removed(i))

\* the removal command of a destroyed instance failed and its process
\* closed afterwards
C17_Witness ==
    \E i \in Ids :
        /\ Removed(i)
        /\ rm[i] = "failed"
        /\ proc[i] = "closed"
        /\ rmBy[i] = "explicit"

SpawnInFlight == \E i \in Ids : pc[i] \in {"awaitReady", "awaitOpen"}

\* C20: after closeAllSpeculosDevices, with no createSpeculosDevice call in
\* flight and the registry still empty, every started process that is
\* still live has had its removal command requested.
C20_NoLeakAfterCloseAll ==
    (lastCall.op = "closeAll" /\ ~SpawnInFlight /\ DOMAIN data = {})
        => \A i \in Ids : proc[i] = "running" => rmCount[i] >= 1

\* ====================================================== application search
\* A JavaScript string is the sequence of its characters, "" is << >>, and
\* `undefined` is the value Absent, which is no string.
Absent == <<"undefined">>

\* the strings in use
Str ==
    [nanos |-> <<"n", "a", "n", "o", "s">>,
     nanoS |-> <<"n", "a", "n", "o", "S">>,
     nanox |-> <<"n", "a", "n", "o", "x">>,
     nanoX |-> <<"n", "a", "n", "o", "X">>,
     blue |-> <<"b", "l", "u", "e">>,
     other |-> <<"o", "t", "h", "e", "r">>,
     constructor |-> <<"c", "o", "n", "s", "t", "r", "u", "c", "t", "o", "r">>,
     proto |-> <<"_", "_", "p", "r", "o", "t", "o", "_", "_">>,
     v160 |-> <<"1", ".", "6", ".", "0">>,
     vv160 |-> <<"v", "1", ".", "6", ".", "0">>,
     v200 |-> <<"2", ".", "0", ".", "0">>,
     v16 |-> <<"1", ".", "6">>,
     v1619 |-> <<"1", ".", "6", ".", "1", ".", "9">>,
     v120 |-> <<"1", ".", "2", ".", "0">>,
     v131 |-> <<"1", ".", "3", ".", "1">>,
     v13 |-> <<"1", ".", "3">>,
     r16x |-> <<"1", ".", "6", ".", "x">>,
     r1x |-> <<"1", ".", "x">>,
     r12x |-> <<"1", ".", "2", ".", "x">>,
     rc130 |-> <<"^", "1", ".", "3", ".", "0">>,
     coinapps |-> <<"c", "o", "i", "n", "a", "p", "p", "s">>,
     dotCoinapps |-> <<".", "/", "c", "o", "i", "n", "a", "p", "p", "s">>,
     readme |-> <<"r", "e", "a", "d", "m", "e">>,
     prefix |-> <<"s", "p", "e", "c", "u", "l", "o", "s", ":">>,
     elfPrefix |-> <<"a", "p", "p", "_">>,
     elfSuffix |-> <<".", "e", "l", "f">>,
     apps |-> <<".", "/", "a", "p", "p", "s">>,
     seed |-> <<"s", "e", "e", "d">>]

Digits == {"0", "1", "2", "3", "4", "5", "6", "7", "8", "9"}
Letters == {"B", "L", "N", "S", "X", "a", "b", "c", "e", "f", "i", "l", "n", "o",
            "p", "r", "s", "t", "u", "v", "x"}

\* String.prototype.toLowerCase on the characters in use
toLowerCase(s) ==
    [k \in 1..Len(s) |->
        CASE s[k] = "S" -> "s"
          [] s[k] = "X" -> "x"
          [] s[k] = "N" -> "n"
          [] s[k] = "B" -> "b"
          [] s[k] = "L" -> "l"
          [] OTHER -> s[k]]

\* UTF-16 code units, for the < of strings
charCode(c) ==
    CASE c = "*" -> 42 [] c = "+" -> 43 [] c = "-" -> 45 [] c = "." -> 46
      [] c = "/" -> 47
      [] c = "0" -> 48 [] c = "1" -> 49 [] c = "2" -> 50 [] c = "3" -> 51
      [] c = "4" -> 52 [] c = "5" -> 53 [] c = "6" -> 54 [] c = "7" -> 55
      [] c = "8" -> 56 [] c = "9" -> 57 [] c = ":" -> 58 [] c = "@" -> 64
      [] c = "B" -> 66 [] c = "L" -> 76 [] c = "N" -> 78 [] c = "S" -> 83 [] c = "X" -> 88
      [] c = "^" -> 94 [] c = "_" -> 95
      [] c = "a" -> 97 [] c = "b" -> 98 [] c = "c" -> 99 [] c = "e" -> 101
      [] c = "f" -> 102 [] c = "i" -> 105 [] c = "l" -> 108 [] c = "n" -> 110
      [] c = "o" -> 111 [] c = "p" -> 112 [] c = "r" -> 114 [] c = "s" -> 115
      [] c = "t" -> 116 [] c = "u" -> 117 [] c = "v" -> 118 [] c = "x" -> 120

\* a < b on strings
RECURSIVE stringLess(_, _)
stringLess(a, b) ==
    IF b = << >> THEN FALSE
    ELSE IF a = << >> THEN TRUE
    ELSE IF a[1] # b[1] THEN charCode(a[1]) < charCode(b[1])
    ELSE stringLess(Tail(a), Tail(b))

\* index of the first occurrence of character c in s, 0 when there is none
indexOf(s, c) ==
    IF \E k \in 1..Len(s) : s[k] = c
    THEN CHOOSE k \in 1..Len(s) : s[k] = c /\ \A j \in 1..(k - 1) : s[j] # c
    ELSE 0

\* String.prototype.split with a one-character separator
RECURSIVE split(_, _)
split(s, sep) ==
    LET k == indexOf(s, sep)
    IN IF k = 0 THEN <<s>>
       ELSE <<SubSeq(s, 1, k - 1)>> \o split(SubSeq(s, k + 1, Len(s)), sep)

\* Array.prototype.join
RECURSIVE join(_, _)
join(parts, sep) ==
    IF parts = << >> THEN << >>
    ELSE IF Len(parts) = 1 THEN parts[1]
    ELSE parts[1] \o sep \o join(Tail(parts), sep)

\* String.prototype.slice(from) and slice(from, to), indices from 0
sliceFrom(s, from) == SubSeq(s, from + 1, Len(s))
slice(s, from, to) == SubSeq(s, from + 1, to)

startsWith(s, prefix) ==
    Len(s) >= Len(prefix) /\ SubSeq(s, 1, Len(prefix)) = prefix

endsWith(s, suffix) ==
    Len(s) >= Len(suffix)
        /\ SubSeq(s, Len(s) - Len(suffix) + 1, Len(s)) = suffix

\* element k of an array, undefined past its end (destructuring)
at(arr, k) == IF k <= Len(arr) THEN arr[k] ELSE Absent

\* Boolean(value) of a string or undefined
truthy(value) == value # Absent /\ value # << >>

hackBadSemverKeepDots(str) == str

\* function hackBadSemver(str)
hackBadSemver(str) ==
    LET parts == split(str, ".")
        x == at(parts, 1)
        y == at(parts, 2)
        rest == SubSeq(parts, 4, Len(parts))
        z == IF rest # << >>
             THEN at(parts, 3) \o <<"-">> \o join(rest, <<"-">>)
             ELSE at(parts, 3)
    IN join(SelectSeq(<<x, y, z>>, truthy), <<".">>)

\* ------------------------------------------------------------ semver
\* The npm package semver as this file calls it (valid, compare,
\* satisfies), default options.
IdChars == Digits \cup Letters \cup {"-"}

allIn(s, set) == \A k \in 1..Len(s) : s[k] \in set

\* NUMERICIDENTIFIER: 0|[1-9]\d*
isNumericIdentifier(s) ==
    /\ s # << >>
    /\ allIn(s, Digits)
    /\ (Len(s) = 1 \/ s[1] # "0")

\* a prerelease identifier: numeric without leading zero, or
\* \d*[a-zA-Z-][a-zA-Z0-9-]*
isPrereleaseIdentifier(s) ==
    /\ s # << >>
    /\ allIn(s, IdChars)
    /\ (allIn(s, Digits) => isNumericIdentifier(s))

RECURSIVE toNumber(_)
toNumber(s) ==
    IF s = << >> THEN 0
    ELSE 10 * toNumber(SubSeq(s, 1, Len(s) - 1)) + (charCode(s[Len(s)]) - charCode("0"))

NoVersion == [ok |-> FALSE, major |-> 0, minor |-> 0, patch |-> 0,
              prerelease |-> << >>]

\* a version without its leading v, cut at the first "+" and, before it,
\* at the first "-": main.pre+build, each a list of dot-separated parts
splitVersion(s) ==
    LET plus == indexOf(s, "+")
        core == IF plus = 0 THEN s ELSE SubSeq(s, 1, plus - 1)
        dash == indexOf(core, "-")
    IN [main |-> split(IF dash = 0 THEN core ELSE SubSeq(core, 1, dash - 1),
                       "."),
        pre |-> IF dash = 0 THEN << >> ELSE split(sliceFrom(core, dash), "."),
        build |-> IF plus = 0 THEN << >> ELSE split(sliceFrom(s, plus), ".")]

\* new SemVer(version): the FULL pattern
\* ^v?N.N.N(-pre(.pre)*)?(+build(.build)*)?$
parseSemVer(version) ==
    IF version = Absent THEN NoVersion
    ELSE
    LET t == splitVersion(IF startsWith(version, <<"v">>)
                          THEN sliceFrom(version, 1) ELSE version)
    IN IF /\ Len(t.main) = 3
          /\ \A k \in 1..3 : isNumericIdentifier(t.main[k])
          /\ \A k \in 1..Len(t.pre) : isPrereleaseIdentifier(t.pre[k])
          /\ \A k \in 1..Len(t.build) : t.build[k] # << >> /\ allIn(t.build[k], IdChars)
       THEN [ok |-> TRUE, major |-> toNumber(t.main[1]),
             minor |-> toNumber(t.main[2]), patch |-> toNumber(t.main[3]),
             prerelease |-> t.pre]
       ELSE NoVersion

\* semver.valid(version) is truthy
semverValid(version) == parseSemVer(version).ok

sign(a, b) == IF a < b THEN -1 ELSE IF a > b THEN 1 ELSE 0

\* compareIdentifiers: numeric ones by value and below the others, the
\* others as strings
compareIdentifiers(a, b) ==
    LET anum == a # << >> /\ allIn(a, Digits)
        bnum == b # << >> /\ allIn(b, Digits)
    IN IF anum /\ bnum THEN sign(toNumber(a), toNumber(b))
       ELSE IF a = b THEN 0
       ELSE IF anum THEN -1
       ELSE IF bnum THEN 1
       ELSE IF stringLess(a, b) THEN -1 ELSE 1

\* SemVer.comparePre
RECURSIVE comparePreFrom(_, _)
comparePreFrom(a, b) ==
    IF a = << >> /\ b = << >> THEN 0
    ELSE IF b = << >> THEN 1
    ELSE IF a = << >> THEN -1
    ELSE IF compareIdentifiers(a[1], b[1]) = 0
         THEN comparePreFrom(Tail(a), Tail(b))
    ELSE compareIdentifiers(a[1], b[1])

comparePre(a, b) ==
    IF a # << >> /\ b = << >> THEN -1
    ELSE IF a = << >> /\ b # << >> THEN 1
    ELSE comparePreFrom(a, b)

\* SemVer.compare of two parsed versions
compareParsed(a, b) ==
    IF a.major # b.major THEN sign(a.major, b.major)
    ELSE IF a.minor # b.minor THEN sign(a.minor, b.minor)
    ELSE IF a.patch # b.patch THEN sign(a.patch, b.patch)
    ELSE comparePre(a.prerelease, b.prerelease)

\* semver.compare(a, b): throws TypeError("Invalid Version") when one of
\* them does not parse
semverCompare(a, b) ==
    IF semverValid(a) /\ semverValid(b)
    THEN [throws |-> FALSE, value |-> compareParsed(parseSemVer(a), parseSemVer(b))]
    ELSE [throws |-> TRUE, value |-> 0]

\* x, X and * stand for any number in a range
isX(s) == s \in {<<"x">>, <<"X">>, <<"*">>}

RECURSIVE stripV(_)
stripV(s) == IF startsWith(s, <<"v">>) THEN stripV(sliceFrom(s, 1)) ELSE s

numberOf(s) == IF isNumericIdentifier(s) THEN toNumber(s) ELSE 0

\* the number of leading components of a partial version that are numbers
concrete(main) ==
    IF isX(main[1]) THEN 0
    ELSE IF Len(main) < 2 \/ isX(main[2]) THEN 1
    ELSE IF Len(main) < 3 \/ isX(main[3]) THEN 2
    ELSE 3

\* the XRANGEPLAIN pattern: [v]*M(.m(.p(-pre)?(+build)?)?)?; oneV says that
\* str has at most one leading v, as the FULLPLAIN pattern of a comparator
\* asks
parseXRange(str) ==
    LET t == splitVersion(stripV(str))
    IN [oneV |-> ~startsWith(str, <<"v", "v">>),
        ok |-> /\ Len(t.main) \in 1..3
               /\ \A k \in 1..Len(t.main) :
                    isX(t.main[k]) \/ isNumericIdentifier(t.main[k])
               /\ Len(t.main) < 3 => t.pre = << >> /\ t.build = << >>
               /\ \A k \in 1..Len(t.pre) : isPrereleaseIdentifier(t.pre[k])
               /\ \A k \in 1..Len(t.build) : t.build[k] # << >> /\ allIn(t.build[k], IdChars),
        n |-> concrete(t.main),
        M |-> numberOf(at(t.main, 1)),
        m |-> numberOf(at(t.main, 2)),
        p |-> numberOf(at(t.main, 3)),
        pre |-> t.pre]

Version(major, minor, patch, pre) ==
    [ok |-> TRUE, major |-> major, minor |-> minor, patch |-> patch,
     prerelease |-> pre]

AnyRange == [ok |-> TRUE, kind |-> "any", lo |-> NoVersion, hi |-> NoVersion]
Interval(lo, hi) == [ok |-> TRUE, kind |-> "interval", lo |-> lo, hi |-> hi]

\* the version below which a range ends; the upper bounds are the "-0"
\* prereleases semver writes
Below(major, minor, patch) == Version(major, minor, patch, << <<"0">> >>)

\* the comparators of an x range or plain version r, with a caret or not:
\* a range with an x or a caret is rewritten, any number of leading v
\* dropped; a plain version is left as written and parsed as a comparator
comparators(caret, r) ==
    CASE ~r.ok ->
            [ok |-> FALSE, kind |-> "none", lo |-> NoVersion, hi |-> NoVersion]
      [] r.ok /\ r.n = 0 -> AnyRange
      [] r.ok /\ r.n = 1 ->
            Interval(Version(r.M, 0, 0, << >>), Below(r.M + 1, 0, 0))
      [] r.ok /\ r.n = 2 ->
            IF caret /\ r.M # 0
            THEN Interval(Version(r.M, r.m, 0, << >>), Below(r.M + 1, 0, 0))
            ELSE Interval(Version(r.M, r.m, 0, << >>), Below(r.M, r.m + 1, 0))
      [] r.ok /\ r.n = 3 /\ ~caret /\ ~r.oneV ->
            [ok |-> FALSE, kind |-> "none", lo |-> NoVersion, hi |-> NoVersion]
      [] r.ok /\ r.n = 3 /\ ~caret /\ r.oneV ->
            [ok |-> TRUE, kind |-> "exact",
             lo |-> Version(r.M, r.m, r.p, r.pre),
             hi |-> Version(r.M, r.m, r.p, r.pre)]
      [] r.ok /\ r.n = 3 /\ caret ->
            Interval(Version(r.M, r.m, r.p, r.pre),
                     IF r.M # 0 THEN Below(r.M + 1, 0, 0)
                     ELSE IF r.m # 0 THEN Below(r.M, r.m + 1, 0)
                     ELSE Below(r.M, r.m, r.p + 1))

\* new Range(range) for a range of one comparator: ^ ranges, x ranges and
\* plain versions
parseRange(range) ==
    IF range = << >> THEN AnyRange
    ELSE IF startsWith(range, <<"^">>)
         THEN comparators(TRUE, parseXRange(sliceFrom(range, 1)))
    ELSE comparators(FALSE, parseXRange(range))

\* Range.test(version): every comparator holds, and a version with a
\* prerelease needs a comparator with a prerelease on the same
\* major.minor.patch
rangeTest(v, r) ==
    LET sameTuple(c) == c.major = v.major /\ c.minor = v.minor
                            /\ c.patch = v.patch
    IN
    CASE r.kind = "any" -> v.prerelease = << >>
      [] r.kind = "exact" -> compareParsed(v, r.lo) = 0
      [] r.kind = "interval" ->
            /\ compareParsed(v, r.lo) >= 0
            /\ compareParsed(v, r.hi) < 0
            /\ v.prerelease # << >> =>
                  \/ r.lo.prerelease # << >> /\ sameTuple(r.lo)
                  \/ r.hi.prerelease # << >> /\ sameTuple(r.hi)

\* semver.satisfies(version, range): false when either does not parse
semverSatisfies(version, range) ==
    /\ semverValid(version)
    /\ parseRange(range).ok
    /\ rangeTest(parseSemVer(version), parseRange(range))

\* ------------------------------------------------------ app candidates
\* const modelMap: modelMap[name], which also finds the keys every object
\* inherits from Object.prototype; what they read is no string
modelMap(name) ==
    CASE name = Str.nanos -> Str.nanoS
      [] name = Str.nanox -> Str.nanoX
      [] name = Str.blue -> Str.blue
      [] name = Str.constructor -> <<"[Function: Object]">>
      [] name = Str.proto -> <<"[Object: null prototype] {}">>
      [] OTHER -> Absent

\* const modelMapPriority: modelMapPriority[name], a number for the three
\* models, a function or an object for the inherited keys, else undefined
modelMapPriority(name) ==
    CASE name = Str.nanos -> [type |-> "number", value |-> 3]
      [] name = Str.nanox -> [type |-> "number", value |-> 2]
      [] name = Str.blue -> [type |-> "number", value |-> 1]
      [] name = Str.constructor -> [type |-> "function", value |-> 0]
      [] name = Str.proto -> [type |-> "object", value |-> 0]
      [] OTHER -> [type |-> "undefined", value |-> 0]

reverse(arr) == [k \in 1..Len(arr) |-> arr[Len(arr) + 1 - k]]

\* (a, b) => semver.compare(a, b) on the keys
compareVersion(a, b) == semverCompare(a.key, b.key).value

\* (a, b) => b[1] - a[1]; a difference that is NaN counts as 0
comparePriority(a, b) ==
    IF a.priority.type = "number" /\ b.priority.type = "number"
    THEN b.priority.value - a.priority.value
    ELSE 0

\* the comparator handed to sort
compare(by, a, b) ==
    IF by = "version" THEN compareVersion(a, b) ELSE comparePriority(a, b)

\* Array.prototype.sort on arrays shorter than 64: the leading run is
\* counted, and reversed when it descends strictly
RECURSIVE runEnd(_, _, _, _)
runEnd(arr, idx, isDescending, by) ==
    IF idx > Len(arr) THEN Len(arr)
    ELSE IF isDescending = (compare(by, arr[idx], arr[idx - 1]) < 0)
         THEN runEnd(arr, idx + 1, isDescending, by)
    ELSE idx - 1

\* the place of pivot among arr[left+1..right]: behind the elements it does
\* not compare less than
RECURSIVE insertionPoint(_, _, _, _, _)
insertionPoint(arr, pivot, left, right, by) ==
    IF left >= right THEN left
    ELSE IF compare(by, pivot, arr[left + (right - left) \div 2 + 1]) < 0
         THEN insertionPoint(arr, pivot, left, left + (right - left) \div 2,
                             by)
    ELSE insertionPoint(arr, pivot, left + (right - left) \div 2 + 1, right,
                        by)

\* arr with the element at position start+1 moved to position left+1
moved(arr, left, start) ==
    SubSeq(arr, 1, left) \o <<arr[start + 1]>> \o SubSeq(arr, left + 1, start)
        \o SubSeq(arr, start + 2, Len(arr))

\* the elements from position start+1 on are inserted one by one
RECURSIVE binaryInsertionSort(_, _, _)
binaryInsertionSort(arr, start, by) ==
    IF start >= Len(arr) THEN arr
    ELSE binaryInsertionSort(
            moved(arr, insertionPoint(arr, arr[start + 1], 0, start, by),
                  start),
            start + 1, by)

\* the leading run of length run is reversed when it descends, the other
\* elements are inserted into it
sortFromRun(arr, run, isDescending, by) ==
    binaryInsertionSort(
        IF isDescending
        THEN reverse(SubSeq(arr, 1, run)) \o SubSeq(arr, run + 1, Len(arr))
        ELSE arr,
        run, by)

sort(arr, by) ==
    IF Len(arr) < 2 THEN arr
    ELSE sortFromRun(arr,
                     runEnd(arr, 3, compare(by, arr[2], arr[1]) < 0, by),
                     compare(by, arr[2], arr[1]) < 0, by)

sortByVersion(arr) == sort(arr, "version")

\* the comparator is called on every element of an array of two or more,
\* and semver.compare throws on a version that does not parse
sortThrows(arr) ==
    Len(arr) >= 2 /\ \E k \in 1..Len(arr) : ~semverValid(arr[k].key)

RECURSIVE flatten(_)
flatten(arrs) ==
    IF arrs = << >> THEN << >>
    ELSE arrs[1] \o flatten(Tail(arrs))

names(entries) == [k \in 1..Len(entries) |-> entries[k].name]

\* lines 198-202: the model directories, highest priority first
orderedModels(listing) ==
    names(sort(
        SelectSeq([k \in 1..Len(listing) |->
                      [name |-> listing[k],
                       priority |-> modelMapPriority(toLowerCase(listing[k]))]],
                  LAMBDA e : e.priority.type # "undefined"),
        "priority"))

keyedFirmwares(listing) ==
    [k \in 1..Len(listing) |->
        [name |-> listing[k], key |-> hackBadSemver(listing[k])]]

orderedFirmwaresNoReverse(listing) ==
    names(reverse(sortByVersion(reverse(keyedFirmwares(listing)))))

\* lines 207-211: firmwares.sort(...); firmwares.reverse()
orderedFirmwares(listing) ==
    names(reverse(sortByVersion(keyedFirmwares(listing))))

\* path.normalize on the segments between the separators
RECURSIVE normalizeSegments(_, _, _)
normalizeSegments(segments, res, allowAboveRoot) ==
    IF segments = << >> THEN res
    ELSE IF segments[1] = << >> \/ segments[1] = <<".">>
         THEN normalizeSegments(Tail(segments), res, allowAboveRoot)
    ELSE IF segments[1] # <<".", ".">>
         THEN normalizeSegments(Tail(segments), Append(res, segments[1]),
                                allowAboveRoot)
    ELSE IF res # << >> /\ res[Len(res)] # <<".", ".">>
         THEN normalizeSegments(Tail(segments), SubSeq(res, 1, Len(res) - 1),
                                allowAboveRoot)
    ELSE IF allowAboveRoot
         THEN normalizeSegments(Tail(segments), Append(res, segments[1]),
                                allowAboveRoot)
    ELSE normalizeSegments(Tail(segments), res, allowAboveRoot)

\* path.normalize(path) from its normalized segments
normalized(path, segments) ==
    IF segments = << >>
    THEN (IF path[1] = "/" THEN <<"/">>
          ELSE IF path[Len(path)] = "/" THEN <<".", "/">> ELSE <<".">>)
    ELSE (IF path[1] = "/" THEN <<"/">> ELSE << >>)
            \o join(segments, <<"/">>)
            \o (IF path[Len(path)] = "/" THEN <<"/">> ELSE << >>)

pathNormalize(path) ==
    IF path = << >> THEN <<".">>
    ELSE normalized(path,
                    normalizeSegments(split(path, "/"), << >>, path[1] # "/"))

\* path.join(a, b) of posix paths
pathJoin(a, b) ==
    pathNormalize(join(SelectSeq(<<a, b>>, LAMBDA s : s # << >>), <<"/">>))

\* lines 219-233: the candidate of one file of the application directory
\* p3, if it is one
elfCandidates(p3, modelName, firmware, appName, elf) ==
    IF /\ startsWith(elf, Str.elfPrefix)
       /\ endsWith(elf, Str.elfSuffix)
       /\ semverValid(slice(elf, 4, Len(elf) - 4))
    THEN << [path |-> pathJoin(p3, elf),
             model |-> modelMap(toLowerCase(modelName)),
             firmware |-> firmware,
             appName |-> appName,
             appVersion |-> slice(elf, 4, Len(elf) - 4)] >>
    ELSE << >>

keyedCandidates(c) ==
    [k \in 1..Len(c) |-> [name |-> c[k], key |-> c[k].appVersion]]

\* lines 215-237: the candidates of the application directory p3, whose
\* files are elfs, latest first
applicationCandidates(p3, modelName, firmware, appName, elfs) ==
    names(reverse(sortByVersion(keyedCandidates(
        flatten([k \in 1..Len(elfs) |->
                    elfCandidates(p3, modelName, firmware, appName,
                                  elfs[k])])))))

firmwareEntry(model, firmware) ==
    LET k == CHOOSE k \in 1..Len(model.firmwares) :
                    model.firmwares[k].name = firmware
    IN model.firmwares[k]

\* lines 213-238: the candidates under the firmware directory p2
firmwareCandidates(p2, modelName, fw) ==
    flatten([k \in 1..Len(fw.apps) |->
                applicationCandidates(pathJoin(p2, fw.apps[k].name),
                                      modelName, fw.name, fw.apps[k].name,
                                      fw.apps[k].elfs)])

modelEntry(tree, modelName) ==
    LET k == CHOOSE k \in 1..Len(tree.models) : tree.models[k].name = modelName
    IN tree.models[k]

\* lines 206-239: the candidates under the model directory p1
modelCandidates(p1, model) ==
    LET firmwares == orderedFirmwares(names(model.firmwares))
    IN flatten([k \in 1..Len(firmwares) |->
                  firmwareCandidates(pathJoin(p1, firmwares[k]), model.name,
                                     firmwareEntry(model, firmwares[k]))])

\* export async function listAppCandidates(cwd) over a folder that does
\* not change while it is read: the promise rejects when a firmware sort
\* throws
listAppCandidates(tree) ==
    LET models == orderedModels(names(tree.models))
    IN IF \E k \in 1..Len(models) :
            sortThrows(keyedFirmwares(names(modelEntry(tree, models[k]).firmwares)))
       THEN [throws |-> TRUE, candidates |-> << >>]
       ELSE [throws |-> FALSE,
             candidates |->
                 flatten([k \in 1..Len(models) |->
                            modelCandidates(pathJoin(tree.cwd, models[k]),
                                            modelEntry(tree, models[k]))])]

NoSearch == [model |-> Absent, firmware |-> Absent, appName |-> Absent,
             appVersion |-> Absent, version |-> Absent]

appCandidatesMatchesAnyVersion(appCandidate, search) ==
    /\ (~truthy(search.model) \/ search.model = appCandidate.model)
    /\ (~truthy(search.appName) \/ search.appName = appCandidate.appName)
    /\ \/ ~truthy(search.firmware)
       \/ appCandidate.firmware = search.firmware
       \/ semverSatisfies(hackBadSemver(appCandidate.firmware), search.firmware)

\* export function appCandidatesMatches(appCandidate, search)
appCandidatesMatches(appCandidate, search) ==
    /\ (~truthy(search.model) \/ search.model = appCandidate.model)
    /\ (~truthy(search.appName) \/ search.appName = appCandidate.appName)
    /\ \/ ~truthy(search.firmware)
       \/ appCandidate.firmware = search.firmware
       \/ semverSatisfies(hackBadSemver(appCandidate.firmware), search.firmware)
    /\ \/ ~truthy(search.appVersion)
       \/ semverSatisfies(appCandidate.appVersion, search.appVersion)

NoCandidate == [path |-> Absent, model |-> Absent, firmware |-> Absent,
                appName |-> Absent, appVersion |-> Absent]

\* export const findAppCandidate: appCandidates.find(...), undefined when
\* no element matches
findAppCandidate(appCandidates, search) ==
    LET hits == {k \in 1..Len(appCandidates) :
                    appCandidatesMatches(appCandidates[k], search)}
    IN IF hits = {} THEN NoCandidate
       ELSE appCandidates[CHOOSE k \in hits : \A j \in hits : k <= j]

\* the strings in use
BTC == <<"b", "t", "c">>
LTC == <<"l", "t", "c">>
BITCOIN_APP == <<"B", "i", "t", "c", "o", "i", "n">>
LITECOIN_APP == <<"L", "i", "t", "e", "c", "o", "i", "n">>

\* ------------------------------------------------------------ query
\* findCryptoCurrencyByKeyword (../currencies): the keyword table, a hit
\* gives the currency's managerAppName
findCryptoCurrencyByKeyword(keyword) ==
    CASE keyword = BTC -> [found |-> TRUE, managerAppName |-> BITCOIN_APP]
      [] keyword = LTC -> [found |-> TRUE, managerAppName |-> LITECOIN_APP]
      [] OTHER -> [found |-> FALSE, managerAppName |-> Absent]

\* getDependencies (../apps/polyfill): the apps an app needs installed
getDependencies(appName) ==
    IF appName = LITECOIN_APP THEN <<BITCOIN_APP>> ELSE << >>

\* function eatDevice(parts); parts.shift() is the parts field returned
eatDevice(parts) ==
    IF Len(parts) > 0
    THEN LET pieces == split(parts[1], "@")
             modelQ == at(pieces, 1)
             firmware == at(pieces, 2)
             model == modelMap(toLowerCase(IF truthy(modelQ) THEN modelQ
                                           ELSE << >>))
         IN IF truthy(model)
            THEN [model |-> model,
                  firmware |-> IF truthy(firmware) THEN firmware ELSE Absent,
                  parts |-> Tail(parts)]
            ELSE [model |-> Absent, firmware |-> Absent, parts |-> parts]
    ELSE [model |-> Absent, firmware |-> Absent, parts |-> parts]

NoMatch == [found |-> FALSE, search |-> NoSearch, appName |-> Absent,
            dependency |-> Absent]

\* function parseAppSearch(query).  The search object is built as
\* {model, firmware, appName, version}: it has no appVersion property, so
\* search.appVersion reads undefined.
parseAppSearch(query) ==
    LET device == eatDevice(split(sliceFrom(query, 9), ":"))
    IN IF Len(device.parts) = 0 THEN NoMatch
       ELSE LET pieces == split(device.parts[1], "@")
                nameQ == at(pieces, 1)
                versionQ == at(pieces, 2)
                currency == findCryptoCurrencyByKeyword(nameQ)
                appName == IF currency.found THEN currency.managerAppName
                           ELSE nameQ
            IN [found |-> TRUE,
                search |-> [model |-> device.model,
                            firmware |-> device.firmware,
                            appName |-> appName,
                            version |-> IF truthy(versionQ) THEN versionQ
                                        ELSE Absent,
                            appVersion |-> Absent],
                appName |-> appName,
                dependency |->
                    IF currency.found
                    THEN at(getDependencies(currency.managerAppName), 1)
                    ELSE Absent]

\* ------------------------------------------------------------ inputs
Elf(version) == Str.elfPrefix \o version \o Str.elfSuffix

\* the sequences without repetition of at most n elements of S: a directory
\* listing names every entry once
distinctSeqs(S, n) ==
    {s \in UNION {[1..k -> S] : k \in 0..n} :
        \A i, j \in 1..Len(s) : i # j => s[i] # s[j]}

\* the variables of the device lifecycle
lifecycle == <<idCounter, data, pc, ready, proc, rm, rmCount, rmBy, unhandled,
               transportCounter, returned, lastCall>>

\* ---------------------------------------------- firmware normalisation
MaxComponents == 4

Components == {<< >>, <<"0">>, <<"1">>, <<"6">>, <<"9">>, <<"0", "9">>}

\* raw firmware names: up to MaxComponents components joined with "."
RawVersions ==
    {join(cs, <<".">>) :
        cs \in UNION {[1..n -> Components] : n \in 1..MaxComponents}}

InitNormalize ==
    /\ InitLifecycle
    /\ input \in [str : RawVersions]
    /\ output = [done |-> FALSE]

\* hackBadSemver(str) on the raw name
normalize ==
    /\ ~output.done
    /\ output' = [done |-> TRUE, value |-> hackBadSemver(input.str)]
    /\ UNCHANGED <<input, lifecycle>>

NextNormalize == normalize

SpecNormalize == InitNormalize /\ [][NextNormalize]_vars

\* ------------------------------------------------------------ scanning
MaxFirmwares == 2
MaxRemoved == 1

FirmwareNames == {Str.v160, Str.vv160, Str.v16, Str.v1619}

ModelListings == {<< >>, <<Str.other>>, <<Str.nanoS>>, <<Str.nanox, Str.nanoS>>,
                  <<Str.nanoS, Str.nanos>>,
                  <<Str.blue, Str.constructor, Str.nanoS>>}

AppListings == {<<BITCOIN_APP>>, <<LITECOIN_APP, BITCOIN_APP>>}

ElfListings == {<<Elf(Str.v120), Elf(Str.v131)>>,
                <<Elf(Str.v131), Str.readme, Elf(Str.v120), Elf(Str.v13),
                  Str.elfPrefix \o Str.v131, Str.v131 \o Str.elfSuffix>>}

\* what fs.readdir answers under cwd: every model directory holds the
\* firmware directories, every firmware directory the application
\* directories, every application directory the files
readdirTree(cwd, models, firmwares, apps, elfs) ==
    [cwd |-> cwd,
     models |->
        [m \in 1..Len(models) |->
            [name |-> models[m],
             firmwares |->
                [f \in 1..Len(firmwares) |->
                    [name |-> firmwares[f],
                     apps |->
                        [a \in 1..Len(apps) |->
                            [name |-> apps[a], elfs |-> elfs]]]]]]]

\* listAppCandidates(cwd) before it is called: pc is where the call stands,
\* todo the directories it has still to read, in the order of its loops
NoScan == [pc |-> "idle", todo |-> << >>, candidates |-> << >>,
           firmwares |-> << >>, error |-> "none"]

InitScan ==
    /\ InitLifecycle
    /\ input \in [cwd : {Str.dotCoinapps},
                  models : ModelListings,
                  firmwares : distinctSeqs(FirmwareNames, MaxFirmwares),
                  apps : AppListings,
                  elfs : ElfListings,
                  removed : {{}}]
    /\ output = NoScan

\* a directory of the folder: its path and what the loops know at that depth
directory(level, p, modelName, firmware, appName) ==
    [level |-> level, p |-> p, modelName |-> modelName,
     firmware |-> firmware, appName |-> appName]

\* is directory d still there
exists(d) == d.level = "cwd" \/ d.modelName \notin input.removed

\* what fsp.readdir(d.p) answers now
readdir(d) ==
    CASE d.level = "cwd" ->
            SelectSeq(input.models, LAMBDA m : m \notin input.removed)
      [] d.level = "model" -> input.firmwares
      [] d.level = "firmware" -> input.apps
      [] OTHER -> input.elfs

\* the call goes on with the next directory, or returns the candidates
proceed(scanned, todo) ==
    [scanned EXCEPT !.todo = todo,
                    !.pc = IF todo = << >> THEN "done" ELSE "readdir"]

\* listAppCandidates(cwd) is called: it runs up to its first
\* await fsp.readdir(cwd)
scan ==
    /\ output.pc = "idle"
    /\ output' = [output EXCEPT
                    !.pc = "readdir",
                    !.todo = <<directory("cwd", input.cwd, Absent, Absent,
                                         Absent)>>]
    /\ UNCHANGED <<input, lifecycle>>

\* the pending fsp.readdir is answered and the call runs up to its next
\* await, its return or its rejection
readdirAnswered ==
    /\ output.pc = "readdir"
    /\ output' =
        LET d == output.todo[1]
            rest == Tail(output.todo)
            entries == readdir(d)
        IN IF ~exists(d)
           THEN [output EXCEPT !.pc = "rejected", !.error = "ENOENT"]
           ELSE CASE d.level = "cwd" ->
                    LET models == orderedModels(entries)
                    IN proceed(output,
                               [k \in 1..Len(models) |->
                                   directory("model", pathJoin(d.p, models[k]),
                                             models[k], Absent, Absent)]
                               \o rest)
                  [] d.level = "model" ->
                    IF sortThrows(keyedFirmwares(entries))
                    THEN [output EXCEPT !.pc = "rejected",
                                        !.error = "Invalid Version"]
                    ELSE LET firmwares == orderedFirmwares(entries)
                         IN proceed([output EXCEPT !.firmwares = firmwares],
                                    [k \in 1..Len(firmwares) |->
                                        directory("firmware",
                                                  pathJoin(d.p, firmwares[k]),
                                                  d.modelName, firmwares[k],
                                                  Absent)]
                                    \o rest)
                  [] d.level = "firmware" ->
                    proceed(output,
                            [k \in 1..Len(entries) |->
                                directory("app", pathJoin(d.p, entries[k]),
                                          d.modelName, d.firmware, entries[k])]
                            \o rest)
                  [] OTHER ->
                    proceed([output EXCEPT
                                !.candidates =
                                    @ \o applicationCandidates(
                                            d.p, d.modelName, d.firmware,
                                            d.appName, entries)],
                            rest)
    /\ UNCHANGED <<input, lifecycle>>

\* while a readdir is pending another program removes the model
\* directory m with all it holds
removeDirectory(m) ==
    /\ output.pc = "readdir"
    /\ Cardinality(input.removed) < MaxRemoved
    /\ m \notin input.removed
    /\ input' = [input EXCEPT !.removed = @ \cup {m}]
    /\ UNCHANGED <<output, lifecycle>>

\* between two answers any other callback of the process may run: a call
\* of createSpeculosDevice stands for them
NextScan ==
    \/ scan
    \/ readdirAnswered
    \/ \E k \in 1..Len(input.models) : removeDirectory(input.models[k])
    \/ createSpeculosDevice

SpecScan == InitScan /\ [][NextScan]_vars

\* ------------------------------------------------------------ matching
\* a folder with two model directories whose names differ in case only,
\* each with one file of the application: both are walked as nanoS
twinTree ==
    [cwd |-> Str.coinapps,
     models |->
        <<readdirTree(Str.coinapps, <<Str.nanoS>>, <<Str.v160>>,
                      <<BITCOIN_APP>>, <<Elf(Str.v120)>>).models[1],
          readdirTree(Str.coinapps, <<Str.nanos>>, <<Str.v160>>,
                      <<BITCOIN_APP>>, <<Elf(Str.v131)>>).models[1]>>]

\* the folders whose scans return
ScannedTrees ==
    {twinTree} \cup
    {readdirTree(Str.coinapps, models, firmwares, <<BITCOIN_APP>>, elfs) :
        <<models, firmwares, elfs>> \in
            {<<Str.nanoS>>, <<Str.nanox, Str.nanoS>>}
                \X {<<Str.v160, Str.v200>>, <<Str.v1619>>}
                \X {<<Elf(Str.v120), Elf(Str.v131)>>,
                    <<Elf(Str.v13), Elf(Str.v200)>>}}

\* the candidate sequences of these scans
ScannedCandidates ==
    {listAppCandidates(tree).candidates : tree \in ScannedTrees}

SearchModels == {Absent, Str.nanoS, Str.nanoX}
SearchAppNames == {Absent, << >>, BITCOIN_APP, LITECOIN_APP}
SearchFirmwares == {Absent, << >>, Str.v160, Str.r16x, Str.v1619}
SearchVersions == {Absent, << >>, Str.rc130, Str.r1x, Str.v120}

InitMatch ==
    /\ InitLifecycle
    /\ input \in [appCandidates : ScannedCandidates,
                  search : [model : SearchModels,
                            firmware : SearchFirmwares,
                            appName : SearchAppNames,
                            appVersion : SearchVersions,
                            version : {Absent}]]
    /\ output = [done |-> FALSE]

\* findAppCandidate(appCandidates, search), with what appCandidatesMatches
\* answers for every candidate
match ==
    /\ ~output.done
    /\ output' = [done |-> TRUE,
                  matches |->
                     [k \in 1..Len(input.appCandidates) |->
                         appCandidatesMatches(input.appCandidates[k],
                                              input.search)],
                  found |-> findAppCandidate(input.appCandidates,
                                             input.search)]
    /\ UNCHANGED <<input, lifecycle>>

NextMatch == match

SpecMatch == InitMatch /\ [][NextMatch]_vars

\* ------------------------------------------------------------ queries
QueryModels == {Absent, Str.nanoS, Str.nanox, Str.other, Str.constructor}
QueryFirmwares == {Absent, Str.v160, Str.r1x}
QueryApps == {Absent, << >>, BITCOIN_APP, BTC, LTC}
QueryVersions == {Absent, Str.r12x, Str.rc130}

withAt(token, suffix) ==
    IF suffix = Absent THEN token ELSE token \o <<"@">> \o suffix

\* speculos:[<model>[@<firmware>]:]<app>[@<version>]
queryOf(q) ==
    Str.prefix \o
    join((IF q.model = Absent THEN << >>
          ELSE <<withAt(q.model, q.firmware)>>)
         \o (IF q.app = Absent THEN << >>
             ELSE <<withAt(q.app, q.version)>>),
         <<":">>)

\* the candidates of the coinapps folder the queries are answered from
QueryCandidates ==
    listAppCandidates(
        readdirTree(Str.coinapps, <<Str.constructor, Str.nanox, Str.nanoS>>,
                    <<Str.v160, Str.v200>>,
                    <<LITECOIN_APP, BITCOIN_APP>>,
                    <<Elf(Str.v120), Elf(Str.v131)>>)).candidates

\* openImplicitSpeculos(query) before it is called
NoOpen == [pc |-> "idle", parsed |-> NoMatch, appCandidate |-> NoCandidate,
           error |-> "none", id |-> 0, appName |-> Absent,
           dependency |-> Absent, elf |-> Absent]

\* coinapps and seed are what getEnv answers for COINAPPS and SEED
InitParse ==
    /\ InitLifecycle
    /\ input \in [model : QueryModels, firmware : QueryFirmwares,
                  app : QueryApps, version : QueryVersions,
                  coinapps : {<< >>, Str.coinapps},
                  seed : {<< >>, Str.seed},
                  appCandidates : {QueryCandidates}]
    /\ output = NoOpen

\* openImplicitSpeculos(query) is called: the two environment checks, then
\* await listAppCandidates(coinapps)
openImplicitSpeculos ==
    /\ output.pc = "idle"
    /\ output' =
        IF ~truthy(input.coinapps)
        THEN [output EXCEPT !.pc = "rejected",
                            !.error = "COINAPPS folder is missing!"]
        ELSE IF ~truthy(input.seed)
             THEN [output EXCEPT !.pc = "rejected",
                                 !.error = "SEED is missing!"]
        ELSE [output EXCEPT !.pc = "listAppCandidates"]
    /\ UNCHANGED <<input, lifecycle>>

\* the file handed to speculos: a template literal of the device's fields
elfArgument(model, firmware, appName, appVersion) ==
    join(<<Str.apps, toLowerCase(model), firmware, appName,
           Elf(appVersion)>>, <<"/">>)

\* createSpeculosDevice({...appCandidate, coinapps, appName, dependency,
\* seed}): model.toLowerCase() throws when the model is no string, after
\* the id has been counted
deviceCreated(parsed, appCandidate) ==
    IF appCandidate.model \notin {Str.nanoS, Str.nanoX, Str.blue}
    THEN /\ idCounter < MaxInst
         /\ idCounter' = idCounter + 1
         /\ output' = [output EXCEPT
                          !.pc = "rejected",
                          !.parsed = parsed,
                          !.appCandidate = appCandidate,
                          !.id = idCounter + 1,
                          !.error = "TypeError"]
         /\ UNCHANGED <<data, pc, ready, proc, rm, rmCount, rmBy, unhandled,
                        transportCounter, returned, lastCall>>
    ELSE /\ spawnSpeculos
         /\ output' = [output EXCEPT
                          !.pc = "createSpeculosDevice",
                          !.parsed = parsed,
                          !.appCandidate = appCandidate,
                          !.id = idCounter + 1,
                          !.appName = parsed.appName,
                          !.dependency = parsed.dependency,
                          !.elf = elfArgument(appCandidate.model,
                                              appCandidate.firmware,
                                              parsed.appName,
                                              appCandidate.appVersion)]

\* the candidate of the parsed query is looked up
candidateFound(parsed, appCandidate) ==
    IF appCandidate = NoCandidate
    THEN /\ output' = [output EXCEPT !.pc = "rejected",
                                     !.parsed = parsed,
                                     !.error = "could not find an app"]
         /\ UNCHANGED lifecycle
    ELSE deviceCreated(parsed, appCandidate)

\* the query is parsed
queryParsed(parsed) ==
    IF ~parsed.found
    THEN /\ output' = [output EXCEPT !.pc = "rejected",
                                     !.error = "speculos: invalid format"]
         /\ UNCHANGED lifecycle
    ELSE candidateFound(parsed,
                        findAppCandidate(input.appCandidates, parsed.search))

\* the scan has answered: openImplicitSpeculos runs up to its rejection or
\* the await in createSpeculosDevice
candidatesListed ==
    /\ output.pc = "listAppCandidates"
    /\ queryParsed(parseAppSearch(queryOf(input)))
    /\ UNCHANGED input

\* the call returns device.transport when createSpeculosDevice returns, and
\* rejects when it rejects: the steps of the spawned device are those of
\* the lifecycle
NextParse ==
    \/ openImplicitSpeculos
    \/ candidatesListed
    \/ \E i \in Ids, chunk \in Chunks : stderrData(i, chunk)
    \/ \E i \in Ids : close(i)
    \/ \E i \in Ids : transportOpened(i)
    \/ \E i \in Ids : transportFailed(i)
    \/ \E i \in Ids, error \in BOOLEAN : execDone(i, error)

SpecParse == InitParse /\ [][NextParse]_vars

\* --------------------------------------------- search properties
nonEmpty(parts) == \A k \in 1..Len(parts) : parts[k] # << >>

\* C15 as stated: more than three components give the first two followed
\* by the remaining ones joined with "-", and exactly three non-empty
\* components give the raw string back.
C15_NormalizeJoinsExtras ==
    output.done =>
        LET parts == split(input.str, ".")
        IN /\ Len(parts) > 3 =>
                output.value
                    = parts[1] \o <<".">> \o parts[2] \o <<".">>
                        \o join(SubSeq(parts, 3, Len(parts)), <<"-">>)
           /\ Len(parts) = 3 /\ nonEmpty(parts) => output.value = input.str

\* C15: when the first two components are not empty, more than three
\* components give the first two followed by the remaining ones joined
\* with "-"; exactly three non-empty components give the raw string back.
C15_NormalizeJoinsExtrasAfterTwo ==
    output.done =>
        LET parts == split(input.str, ".")
        IN /\ Len(parts) > 3 /\ parts[1] # << >> /\ parts[2] # << >>
                => output.value
                    = join(<<parts[1], parts[2],
                             join(SubSeq(parts, 3, Len(parts)), <<"-">>)>>,
                           <<".">>)
           /\ Len(parts) = 3 /\ nonEmpty(parts) => output.value = input.str

C15_Witness ==
    /\ output.done
    /\ input.str = Str.v1619
    /\ output.value = <<"1", ".", "6", ".", "1", "-", "9">>

\* C19: the normalized form of a raw name made of non-empty numeric
\* components is a valid semantic version, which the comparison of the
\* firmware sort accepts without throwing.
C19_NormalizedIsValid ==
    output.done =>
        LET parts == split(input.str, ".")
        IN (\A k \in 1..Len(parts) :
                parts[k] # << >> /\ allIn(parts[k], Digits))
            => /\ semverValid(output.value)
               /\ ~semverCompare(output.value, Str.v160).throws

isAppElf(elf) ==
    /\ startsWith(elf, Str.elfPrefix)
    /\ endsWith(elf, Str.elfSuffix)
    /\ semverValid(slice(elf, 4, Len(elf) - 4))

\* what modelMapPriority reads for the model directory of a candidate
priorityOf(model) ==
    CASE model = Str.nanoS -> modelMapPriority(Str.nanos)
      [] model = Str.nanoX -> modelMapPriority(Str.nanox)
      [] model = Str.blue -> modelMapPriority(Str.blue)
      [] model = modelMap(Str.constructor) -> modelMapPriority(Str.constructor)
      [] model = modelMap(Str.proto) -> modelMapPriority(Str.proto)
      [] OTHER -> modelMapPriority(Absent)

range(arr) == {arr[k] : k \in 1..Len(arr)}

\* the files under the model directories the scan walks that are named
\* app_<version>.elf with a valid version
appElfPaths ==
    {pathJoin(pathJoin(pathJoin(pathJoin(input.cwd, t[1]), t[2]), t[3]), t[4]) :
        t \in {t \in range(input.models) \X range(input.firmwares)
                    \X range(input.apps) \X range(input.elfs) :
                /\ modelMapPriority(toLowerCase(t[1])).type # "undefined"
                /\ isAppElf(t[4])}}

descending(a, b) == semverCompare(a, b).value >= 0

\* C12: over a folder that does not change, the scan returns a sequence,
\* with the models in descending priority (nanos, nanox, blue), the
\* firmwares of a model in descending normalized version, the versions of
\* one (model, firmware, appName) in descending order, and exactly one
\* candidate per app_<version>.elf file of valid version.
C12_ScanOrderedAndExact ==
    (output.pc \in {"done", "rejected"} /\ input.removed = {}) =>
        LET c == output.candidates
        IN /\ output.pc = "done"
           /\ {c[k].path : k \in 1..Len(c)} = appElfPaths
           /\ Len(c) = Cardinality(appElfPaths)
           /\ \A i, j \in 1..Len(c) :
                i < j =>
                /\ (priorityOf(c[i].model).type = "number"
                        /\ priorityOf(c[j].model).type = "number")
                        => priorityOf(c[i].model).value
                                >= priorityOf(c[j].model).value
                /\ c[i].model = c[j].model
                        => descending(hackBadSemver(c[i].firmware),
                                      hackBadSemver(c[j].firmware))
                /\ (c[i].model = c[j].model
                        /\ c[i].firmware = c[j].firmware
                        /\ c[i].appName = c[j].appName)
                        => descending(c[i].appVersion, c[j].appVersion)

position(arr, x) == CHOOSE k \in 1..Len(arr) : arr[k] = x

tie(a, b) ==
    semverCompare(hackBadSemver(a), hackBadSemver(b))
        = [throws |-> FALSE, value |-> 0]

\* C18 as stated: firmware directories whose normalized versions compare
\* equal are walked in directory-listing order.
C18_TiesInListingOrder ==
    output.firmwares # << >> =>
        \A i, j \in 1..Len(input.firmwares) :
            i < j /\ tie(input.firmwares[i], input.firmwares[j])
                => position(output.firmwares, input.firmwares[i])
                        < position(output.firmwares, input.firmwares[j])

\* C18: the firmware directories are walked in descending normalized
\* version, and those whose normalized versions compare equal in the
\* reverse of the directory-listing order.
C18_TiesInReverseListingOrder ==
    output.firmwares # << >> =>
        /\ range(output.firmwares) = range(input.firmwares)
        /\ \A k \in 1..(Len(output.firmwares) - 1) :
                descending(hackBadSemver(output.firmwares[k]),
                           hackBadSemver(output.firmwares[k + 1]))
        /\ \A i, j \in 1..Len(input.firmwares) :
                i < j /\ tie(input.firmwares[i], input.firmwares[j])
                    => position(output.firmwares, input.firmwares[i])
                            > position(output.firmwares, input.firmwares[j])

C18_Witness ==
    /\ output.pc = "done"
    /\ input.firmwares = <<Str.v160, Str.vv160>>
    /\ output.firmwares = <<Str.vv160, Str.v160>>
    /\ Len(output.candidates) > 0
    /\ output.candidates[1].firmware = Str.vv160

\* every field of the search outside `wild` is satisfied by the candidate
fieldsSatisfied(c, search, wild) ==
    /\ search.model \notin wild => search.model = c.model
    /\ search.appName \notin wild => search.appName = c.appName
    /\ search.firmware \notin wild =>
            \/ c.firmware = search.firmware
            \/ semverSatisfies(hackBadSemver(c.firmware), search.firmware)
    /\ search.appVersion \notin wild =>
            semverSatisfies(c.appVersion, search.appVersion)

\* C13 as stated: a candidate matches exactly when every field present in
\* the search is satisfied, and only the absent fields are wildcards.
C13_MatchesIffPresentSatisfied ==
    output.done =>
        \A k \in 1..Len(input.appCandidates) :
            output.matches[k]
                = fieldsSatisfied(input.appCandidates[k], input.search, {Absent})

\* C13: a candidate matches exactly when every field of the search that is
\* neither absent nor the empty string is satisfied (model and appName by
\* equality, firmware by equality or by the range on the normalized
\* firmware, appVersion by the range); absent and empty fields are
\* wildcards, so the search without fields matches every candidate.
C13_MatchesIffNonEmptySatisfied ==
    output.done =>
        \A k \in 1..Len(input.appCandidates) :
            /\ output.matches[k]
                = fieldsSatisfied(input.appCandidates[k], input.search,
                                  {Absent, << >>})
            /\ input.search = NoSearch => output.matches[k]

C13_Witness ==
    /\ output.done
    /\ input.search.model = Str.nanoS
    /\ input.search.appName = Absent
    /\ input.search.firmware = Str.r16x
    /\ input.search.appVersion = Str.rc130
    /\ \E k, j \in 1..Len(input.appCandidates) :
            /\ output.matches[k]
            /\ ~output.matches[j]
            /\ input.appCandidates[j].model = Str.nanoS
            /\ input.appCandidates[j].firmware = Str.v160
            /\ input.appCandidates[j].appVersion = Str.v120

\* C14: the result is the earliest candidate that matches, absent when
\* none does; over the candidates of a scan it is therefore, among the
\* matching candidates of its own (model, firmware, appName), one of
\* the highest application version.
C14_FindFirstIsEarliest ==
    output.done =>
        LET c == input.appCandidates
            hits == {k \in 1..Len(c) : output.matches[k]}
        IN /\ hits = {} => output.found = NoCandidate
           /\ hits # {} =>
                \E k \in hits :
                    /\ output.found = c[k]
                    /\ \A j \in hits :
                        /\ k <= j
                        /\ (c[j].model = c[k].model
                                /\ c[j].firmware = c[k].firmware
                                /\ c[j].appName = c[k].appName) =>
                             semverCompare(c[k].appVersion,
                                           c[j].appVersion).value >= 0

\* C11: when the application segment of the query is <appToken>@<range>,
\* the search's appVersion is that range and the candidate chosen for the
\* query satisfies it.
C11_ParsedVersionConstrains ==
    (/\ output.pc \in {"createSpeculosDevice", "rejected"}
     /\ truthy(input.coinapps) /\ truthy(input.seed)
     /\ input.app # Absent /\ input.version # Absent) =>
        /\ output.parsed.found
        /\ output.parsed.search.appVersion = input.version
        /\ output.appCandidate # NoCandidate =>
                semverSatisfies(output.appCandidate.appVersion, input.version)

====
